---- MODULE Spec2Model ----
(***************************************************************************)
(* API marketplace: the record assembly (fetchApis, fetchApiById), the     *)
(* dashboard summary (getDashboardMetrics), the search page's filter/sort  *)
(* effect (SearchApis), the load of the detail page (ViewApi) and the      *)
(* creation of a listing (createApi, the onSubmit handler of AddApi).      *)
(*                                                                         *)
(* Strings whose characters matter (names, descriptions, tags, the search  *)
(* query) are sequences of ASCII codes, so that toLowerCase, includes and  *)
(* localeCompare are computed character by character.  Identifiers and     *)
(* enum tokens are TLA+ strings.  Timestamps are whole days counted from   *)
(* 1 January of year 1 (day 1); uptime is in tenths of a percent           *)
(* (999 = 99.9).                                                           *)
(***************************************************************************)
EXTENDS Integers, Sequences, FiniteSets, TLC

VARIABLES
    store,          \* the record store: apis, api_categories, api_stats, api_endpoints
    now,            \* the evaluation instant (new Date()), in days
    loading,        \* SearchApis: loading
    apis,           \* SearchApis: apis
    filteredApis,   \* SearchApis: filteredApis
    categories,     \* SearchApis: categories
    searchQuery,    \* SearchApis: searchQuery
    filters,        \* SearchApis: filters {category, authType, sortBy}
    activeFilters,  \* SearchApis: activeFilters (chips)
    toasts,         \* the notifications shown so far (their titles)
    dLoading,       \* Dashboard: loading
    dApis,          \* Dashboard: apis
    metrics,        \* Dashboard: metrics
    vLoading,       \* ViewApi: loading
    vApi,           \* ViewApi: api
    vRoute,         \* ViewApi: useParams(), [id |-> n], undefined without an id
    vInFlight,      \* ViewApi: the ids whose fetchApiById call has not settled
    vChanges,       \* ViewApi: the number of route changes so far
    issued,         \* the store requests issued by fetchApiById and createApi
    create,         \* the createApi call of the add-listing page
    fetch,          \* a fetchApis call running beside the createApi call
    addApi          \* AddApi: loading, and where the page navigated to

vars == << store, now, toasts, loading, apis, filteredApis, categories, searchQuery,
           filters, activeFilters, dLoading, dApis, metrics, vLoading, vApi,
           vRoute, vInFlight, vChanges, issued, create, fetch, addApi >>

searchVars == << loading, apis, filteredApis, categories, searchQuery,
                 filters, activeFilters >>

dashVars == << dLoading, dApis, metrics >>

viewVars == << vLoading, vApi, vRoute, vInFlight, vChanges >>

flowVars == << issued, create, fetch, addApi >>

\* The longest list of API rows the store holds.
MaxApis == 3

\* JavaScript undefined / null (an absent category, stats row or metrics value).
Undefined == [undefined |-> TRUE]

(***************************************************************************)
(* Strings                                                                 *)
(***************************************************************************)

\* One character of String.prototype.toLowerCase: A-Z (65..90) -> a-z.
LowerChar(c) == IF c \in 65..90 THEN c + 32 ELSE c

\* String.prototype.toLowerCase
ToLowerCase(s) == [i \in 1..Len(s) |-> LowerChar(s[i])]

\* String.prototype.includes: sub occurs in s as a contiguous run.
Includes(s, sub) ==
    \E i \in 1..(Len(s) - Len(sub) + 1) : SubSeq(s, i, i + Len(sub) - 1) = sub

\* Comparison of two strings by code units: -1, 0 or 1.
RECURSIVE CodeUnitCompare(_, _)
CodeUnitCompare(a, b) ==
    IF Len(a) = 0 \/ Len(b) = 0
    THEN (IF Len(a) = Len(b) THEN 0 ELSE IF Len(a) = 0 THEN -1 ELSE 1)
    ELSE IF Head(a) < Head(b) THEN -1
    ELSE IF Head(a) > Head(b) THEN 1
    ELSE CodeUnitCompare(Tail(a), Tail(b))

\* The case difference that decides between two strings equal up to case:
\* at the first differing position the lower-case letter sorts first.
RECURSIVE CaseCompare(_, _)
CaseCompare(a, b) ==
    IF Len(a) = 0 \/ Len(b) = 0 THEN 0
    ELSE IF Head(a) = Head(b) THEN CaseCompare(Tail(a), Tail(b))
    ELSE IF Head(a) > Head(b) THEN -1 ELSE 1

\* String.prototype.localeCompare on letters: the letters decide first,
\* whatever their case; the case only separates otherwise equal strings.
LocaleCompare(a, b) ==
    LET primary == CodeUnitCompare(ToLowerCase(a), ToLowerCase(b))
    IN  IF primary # 0 THEN primary ELSE CaseCompare(a, b)

(***************************************************************************)
(* The record store                                                        *)
(***************************************************************************)

\* Rows of api_categories.
CategoryRows ==
    << [id |-> "c1", name |-> "Finance", color |-> "green"],
       [id |-> "c2", name |-> "Weather", color |-> "blue"] >>

\* Rows of api_categories in which the identifier c1 occurs twice.
DuplicatedCategoryRows ==
    CategoryRows \o << [id |-> "c1", name |-> "Money", color |-> "red"] >>

\* The shapes an API listing takes: its apis row (without the id), its
\* api_stats rows and its api_endpoints rows.
\*   "Pay" = 80 97 121   "pay" = 112 97 121   "Wea" = 87 101 97
\*   "ab"  = 97 98       "api" = 97 112 105   "PAY" = 80 65 89
\* created_at: 424 = 28 February, 425 = 1 March, 426 = 2 March of year 2.
Profiles ==
    << [ name |-> <<80, 97, 121>>, description |-> <<97, 112, 105>>,
         tags |-> << <<70, 105, 110>> >>,
         category_id |-> "c1", auth_type |-> "apiKey", created_at |-> 426,
         stats |-> << [total_calls |-> 200, uptime |-> 990] >>,
         endpoints |-> << [method |-> "GET", path |-> "/pay"] >> ],
       [ name |-> <<87, 101, 97>>, description |-> <<115, 107, 121>>,
         tags |-> << >>,
         category_id |-> "c2", auth_type |-> "none", created_at |-> 424,
         stats |-> << >>,
         endpoints |-> << >> ],
       [ name |-> <<112, 97, 121>>, description |-> <<65, 112, 105>>,
         tags |-> << <<112, 65, 121>>, <<120>> >>,
         category_id |-> "c1", auth_type |-> "oauth2", created_at |-> 425,
         stats |-> << [total_calls |-> 0, uptime |-> 0] >>,
         endpoints |-> << >> ],
       [ name |-> <<97, 98>>, description |-> <<80, 65, 89>>,
         tags |-> << >>,
         category_id |-> "c2", auth_type |-> "none", created_at |-> 426,
         stats |-> << [total_calls |-> 100, uptime |-> 500] >>,
         endpoints |-> << [method |-> "GET", path |-> "/a"],
                          [method |-> "POST", path |-> "/a"] >> ],
       [ name |-> <<80, 97, 121>>, description |-> <<97, 112, 105>>,
         tags |-> << >>,
         category_id |-> "c1", auth_type |-> "basic", created_at |-> 425,
         stats |-> << [total_calls |-> 50, uptime |-> 500] >>,
         endpoints |-> << [method |-> "GET", path |-> "/b"] >> ],
       [ name |-> <<97, 98>>, description |-> <<115, 107, 121>>,
         tags |-> << >>,
         category_id |-> "c2", auth_type |-> "", created_at |-> 424,
         stats |-> << >>,
         endpoints |-> << >> ],
       [ name |-> <<80, 97, 121>>, description |-> <<97, 112, 105>>,
         tags |-> << >>,
         category_id |-> "c1", auth_type |-> "apiKey", created_at |-> 425,
         stats |-> << [total_calls |-> 10, uptime |-> 900],
                      [total_calls |-> 20, uptime |-> 800] >>,
         endpoints |-> << >> ] >>

\* The shapes with one of the three auth types of the add-listing form and
\* at most one stats row; the last three shapes were written by other means:
\* an auth_type column (a plain string) holding an unknown token or the
\* empty string, and two api_stats rows for one API (the relation of
\* api_stats to apis is not one-to-one).
FormShapes ==
    { p \in DOMAIN Profiles :
        /\ Profiles[p].auth_type \in {"apiKey", "oauth2", "none"}
        /\ Len(Profiles[p].stats) <= 1 }

\* The apis row of the listing with identifier id and shape p.
ApiRow(id, p) ==
    [ id |-> id, name |-> p.name, description |-> p.description,
      tags |-> p.tags, category_id |-> p.category_id,
      auth_type |-> p.auth_type, created_at |-> p.created_at ]

\* The api_stats rows of the listings ps[1..n]: each row carries the owning
\* API's identifier in api_id.
RECURSIVE StatsRows(_, _)
StatsRows(ps, n) ==
    IF n = 0 THEN << >>
    ELSE StatsRows(ps, n - 1)
         \o [k \in 1..Len(Profiles[ps[n]].stats) |->
               [ api_id |-> n,
                 total_calls |-> Profiles[ps[n]].stats[k].total_calls,
                 uptime |-> Profiles[ps[n]].stats[k].uptime ]]

\* The api_endpoints rows of the listings ps[1..n].
RECURSIVE EndpointRows(_, _)
EndpointRows(ps, n) ==
    IF n = 0 THEN << >>
    ELSE EndpointRows(ps, n - 1)
         \o [k \in 1..Len(Profiles[ps[n]].endpoints) |->
               [ api_id |-> n,
                 method |-> Profiles[ps[n]].endpoints[k].method,
                 path |-> Profiles[ps[n]].endpoints[k].path ]]

\* The store holding the listings of shapes ps, with identifiers 1..Len(ps);
\* down names the collections whose fetch fails.
StoreOf(ps, down) ==
    [ apis           |-> [i \in 1..Len(ps) |-> ApiRow(i, Profiles[ps[i]])],
      api_categories |-> CategoryRows,
      api_stats      |-> StatsRows(ps, Len(ps)),
      api_endpoints  |-> EndpointRows(ps, Len(ps)),
      down           |-> down ]

\* Sequences over S of length at most n.
SeqsUpTo(S, n) == UNION { [1..k -> S] : k \in 0..n }

\* The stores the search page and the dashboard start from: every list of
\* at most MaxApis listings made with the form, with the store available, and
\* the single listings with one collection unavailable.
Stores ==
    { StoreOf(ps, {}) : ps \in SeqsUpTo(FormShapes, MaxApis) }
    \cup { StoreOf(ps, {c}) :
             ps \in SeqsUpTo(FormShapes, 1),
             c \in {"apis", "api_categories", "api_stats", "api_endpoints"} }

(***************************************************************************)
(* The stores of the dashboard summary                                     *)
(***************************************************************************)

\* The longest list of API rows spread over the six categories.
MaxCategorised == 7

\* The longest list of API rows ranked by their calls.
MaxRanked == 4

\* Rows of api_categories of a catalogue with six categories.
SixCategoryRows ==
    << [id |-> "k1", name |-> "Finance", color |-> "green"],
       [id |-> "k2", name |-> "Weather", color |-> "blue"],
       [id |-> "k3", name |-> "Maps",    color |-> "red"],
       [id |-> "k4", name |-> "Social",  color |-> "pink"],
       [id |-> "k5", name |-> "News",    color |-> "grey"],
       [id |-> "k6", name |-> "Sports",  color |-> "gold"] >>

\* The largest category number used in cs (0 in an empty list).
RECURSIVE LastCategory(_, _)
LastCategory(cs, n) ==
    IF n = 0 THEN 0
    ELSE LET m == LastCategory(cs, n - 1) IN IF cs[n] > m THEN cs[n] ELSE m

\* The ways n listings spread over the categories, the categories numbered
\* in the order in which the list first uses them (category identifiers are
\* opaque keys: any other spread is one of these with the keys renamed).
RECURSIVE Spreads(_)
Spreads(n) ==
    IF n = 0 THEN { << >> }
    ELSE UNION { { Append(cs, c) :
                     c \in 1..(IF LastCategory(cs, n - 1) < Len(SixCategoryRows)
                               THEN LastCategory(cs, n - 1) + 1
                               ELSE Len(SixCategoryRows)) } :
                 cs \in Spreads(n - 1) }

\* The store of the listings 1..Len(cs), listing i in category cs[i], each
\* with the shape Profiles[1] otherwise.
CategorisedStore(cs, down) ==
    LET ps == [i \in 1..Len(cs) |-> 1]
    IN  [ apis           |-> [i \in 1..Len(cs) |->
                               ApiRow(i, [Profiles[1] EXCEPT
                                          !.category_id = SixCategoryRows[cs[i]].id])],
          api_categories |-> SixCategoryRows,
          api_stats      |-> StatsRows(ps, Len(cs)),
          api_endpoints  |-> EndpointRows(ps, Len(cs)),
          down           |-> down ]

\* The stores the dashboard summary is computed from: the spreads of at most
\* MaxCategorised listings over the categories, with the categories readable
\* or not, and every list of at most MaxRanked listings.
SummaryStores ==
    { CategorisedStore(cs, down) :
        cs \in UNION { Spreads(n) : n \in 0..MaxCategorised },
        down \in { {}, {"api_categories"} } }
    \cup { StoreOf(ps, {}) : ps \in SeqsUpTo(FormShapes, MaxRanked) }

(***************************************************************************)
(* apiService: fetchApiCategories, fetchApis                               *)
(***************************************************************************)

\* supabase.from(table).select('*'): { data, error }.
SelectAll(st, table) ==
    IF table \in st.down
    THEN [data |-> Undefined, error |-> TRUE]
    ELSE [data |-> st[table], error |-> FALSE]

\* fetchApiCategories: the rows, or [] and a notification on an error.
FetchApiCategories(st) ==
    LET res == SelectAll(st, "api_categories")
    IN  IF res.error
        THEN [data |-> << >>, toasts |-> << "Error fetching categories" >>]
        ELSE [data |-> res.data, toasts |-> << >>]

\* A lookup table that keeps the first row of each key.
MapLookupFirst(rows, key, k) ==
    LET hits == { i \in 1..Len(rows) : rows[i][key] = k }
    IN  IF hits = {} THEN Undefined
        ELSE rows[CHOOSE i \in hits : \A j \in hits : i <= j]

\* Object.fromEntries(rows.map(r => [r[key], r]))[k]: the last row whose key
\* is k, undefined when there is none.
MapLookup(rows, key, k) ==
    LET hits == { i \in 1..Len(rows) : rows[i][key] = k }
    IN  IF hits = {} THEN Undefined
        ELSE rows[CHOOSE i \in hits : \A j \in hits : j <= i]

\* (api.auth_type as ...) || 'none': a falsy stored value ("" stands for null
\* and the empty string) becomes 'none'; any other value is kept.
AuthTypeOrNone(auth_type) == IF auth_type = "" THEN "none" ELSE auth_type

\* The enriched record carrying the endpoints of every listing.
EnrichAllEndpoints(row, categoriesData, statsData, endpointsData) ==
    [ id |-> row.id, name |-> row.name, description |-> row.description,
      tags |-> row.tags, category_id |-> row.category_id,
      created_at |-> row.created_at,
      auth_type |-> AuthTypeOrNone(row.auth_type),
      category  |-> MapLookup(categoriesData, "id", row.category_id),
      stats     |-> MapLookup(statsData, "api_id", row.id),
      endpoints |-> endpointsData ]

\* The enriched record fetchApis builds from one apis row.
Enrich(row, categoriesData, statsData, endpointsData) ==
    [ id |-> row.id, name |-> row.name, description |-> row.description,
      tags |-> row.tags, category_id |-> row.category_id,
      created_at |-> row.created_at,
      auth_type |-> AuthTypeOrNone(row.auth_type),
      category  |-> MapLookup(categoriesData, "id", row.category_id),
      stats     |-> MapLookup(statsData, "api_id", row.id),
      endpoints |-> SelectSeq(endpointsData, LAMBDA e : e.api_id = row.id) ]

\* A failed secondary fetch leaves data null: the lookup table stays empty.
DataOrEmpty(res) == IF res.error THEN << >> ELSE res.data

\* fetchApis showing no notification when the apis fetch fails.
FetchApisSilent(st) ==
    LET apisRes == SelectAll(st, "apis")
    IN  IF apisRes.error \/ Len(apisRes.data) = 0
        THEN [data |-> << >>, toasts |-> << >>]
        ELSE LET categoriesData == DataOrEmpty(SelectAll(st, "api_categories"))
                 statsData      == DataOrEmpty(SelectAll(st, "api_stats"))
                 endpointsData  == DataOrEmpty(SelectAll(st, "api_endpoints"))
             IN  [ data |-> [i \in 1..Len(apisRes.data) |->
                              Enrich(apisRes.data[i], categoriesData,
                                     statsData, endpointsData)],
                   toasts |-> << >> ]

\* fetchApis giving up on the failure of any of its four fetches.
FetchApisAbortOnAny(st) ==
    IF st.down # {}
    THEN [data |-> << >>, toasts |-> << "Error" >>]
    ELSE [ data |-> [i \in 1..Len(st.apis) |->
                      Enrich(st.apis[i], st.api_categories,
                             st.api_stats, st.api_endpoints)],
           toasts |-> << >> ]

\* fetchApis: every apis row joined with its category, stats and endpoints.
FetchApis(st) ==
    LET apisRes == SelectAll(st, "apis")
    IN  IF apisRes.error
        THEN [data |-> << >>, toasts |-> << "Error" >>]
        ELSE IF Len(apisRes.data) = 0
        THEN [data |-> << >>, toasts |-> << >>]
        ELSE LET categoriesData == DataOrEmpty(SelectAll(st, "api_categories"))
                 statsData      == DataOrEmpty(SelectAll(st, "api_stats"))
                 endpointsData  == DataOrEmpty(SelectAll(st, "api_endpoints"))
             IN  [ data |-> [i \in 1..Len(apisRes.data) |->
                              Enrich(apisRes.data[i], categoriesData,
                                     statsData, endpointsData)],
                   toasts |-> << >> ]

\* A request to the store as the log of issued requests keeps it: the
\* operation, the collection, the API identifier it is about (for an apis
\* insert, the identifier the store gives the row) and whether it succeeded.
Request(op, table, api_id, ok) ==
    [op |-> op, table |-> table, api_id |-> api_id, ok |-> ok]

\* supabase.from(table).select('*').eq(key, k): the matching rows.
SelectEq(st, table, key, k) ==
    IF table \in st.down
    THEN [data |-> Undefined, error |-> TRUE]
    ELSE [data |-> SelectSeq(st[table], LAMBDA r : r[key] = k), error |-> FALSE]

\* .single(): the one matching row; no row or several rows are an error.
Single(res) ==
    IF res.error \/ Len(res.data) # 1
    THEN [data |-> Undefined, error |-> TRUE]
    ELSE [data |-> res.data[1], error |-> FALSE]

\* .maybeSingle(): the one matching row, null without an error when there is
\* none; several rows are an error.
MaybeSingle(res) ==
    IF res.error \/ Len(res.data) > 1
    THEN [data |-> Undefined, error |-> TRUE]
    ELSE IF Len(res.data) = 0
    THEN [data |-> Undefined, error |-> FALSE]
    ELSE [data |-> res.data[1], error |-> FALSE]

\* A by-id read that goes on to the category, stats and endpoints fetches
\* after a failed apis fetch.
FetchApiByIdFetchingOn(st, id) ==
    LET apiRes == Single(SelectEq(st, "apis", "id", id))
    IN  [ data |-> Undefined,
          toasts |-> IF apiRes.error THEN << "Error" >> ELSE << >>,
          requests |->
            << Request("select", "apis", id, ~apiRes.error),
               Request("select", "api_categories", id, FALSE),
               Request("select", "api_stats", id, FALSE),
               Request("select", "api_endpoints", id, FALSE) >> ]

\* fetchApiById: the apis row with the identifier id joined with its
\* category, stats and endpoints; null and a notification when the row
\* cannot be read.
FetchApiById(st, id) ==
    LET apiRes == Single(SelectEq(st, "apis", "id", id))
        row    == apiRes.data
    IN  IF apiRes.error
        THEN [ data |-> Undefined, toasts |-> << "Error" >>,
               requests |-> << Request("select", "apis", id, FALSE) >> ]
        ELSE LET category  == Single(SelectEq(st, "api_categories", "id",
                                              row.category_id))
                 stats     == MaybeSingle(SelectEq(st, "api_stats", "api_id", row.id))
                 endpoints == SelectEq(st, "api_endpoints", "api_id", row.id)
             IN  [ data |->
                     [ id |-> row.id, name |-> row.name,
                       description |-> row.description, tags |-> row.tags,
                       category_id |-> row.category_id,
                       created_at |-> row.created_at,
                       auth_type |-> AuthTypeOrNone(row.auth_type),
                       category  |-> category.data,
                       stats     |-> stats.data,
                       endpoints |-> DataOrEmpty(endpoints) ],
                   toasts |-> << >>,
                   requests |->
                     << Request("select", "apis", id, TRUE),
                        Request("select", "api_categories", id, ~category.error),
                        Request("select", "api_stats", id, ~stats.error),
                        Request("select", "api_endpoints", id, ~endpoints.error) >> ]

\* api.stats?.total_calls || 0
TotalCallsOrZero(api) ==
    IF api.stats = Undefined THEN 0 ELSE api.stats.total_calls

\* api.stats?.uptime || 0
UptimeOrZero(api) ==
    IF api.stats = Undefined THEN 0 ELSE api.stats.uptime

\* api.stats?.uptime || 99.9: a missing stats row and an uptime of 0 both
\* give 99.9.
UptimeOrDefault(api) ==
    IF api.stats = Undefined \/ api.stats.uptime = 0 THEN 999
    ELSE api.stats.uptime

(***************************************************************************)
(* Array.prototype.sort with the comparators of the pages                  *)
(***************************************************************************)

\* The comparators with the dates ascending.
CompareDateAscending(sortBy, a, b) ==
    CASE sortBy = "name"       -> LocaleCompare(a.name, b.name)
      [] sortBy = "date"       -> a.created_at - b.created_at
      [] sortBy = "popularity" -> TotalCallsOrZero(b) - TotalCallsOrZero(a)
      [] sortBy = "rating"     -> UptimeOrZero(b) - UptimeOrZero(a)
      [] sortBy = "count"      -> b.count - a.count

\* The comparator of each sort key of the search page, and of the category
\* counts of the dashboard: negative when a sorts before b.
Compare(sortBy, a, b) ==
    CASE sortBy = "name"       -> LocaleCompare(a.name, b.name)
      [] sortBy = "date"       -> b.created_at - a.created_at
      [] sortBy = "popularity" -> TotalCallsOrZero(b) - TotalCallsOrZero(a)
      [] sortBy = "rating"     -> UptimeOrZero(b) - UptimeOrZero(a)
      [] sortBy = "count"      -> b.count - a.count

\* x put before the first element it does not sort after: ties are reversed.
InsertBeforeTies(arr, x, sortBy) ==
    LET at == CHOOSE i \in 1..(Len(arr) + 1) :
                  /\ i = Len(arr) + 1 \/ Compare(sortBy, x, arr[i]) <= 0
                  /\ \A j \in 1..(i - 1) : ~(Compare(sortBy, x, arr[j]) <= 0)
    IN  SubSeq(arr, 1, at - 1) \o << x >> \o SubSeq(arr, at, Len(arr))

\* x put into the sorted array arr before the first element it sorts
\* strictly before (after every element it ties with).
Insert(arr, x, sortBy) ==
    LET at == CHOOSE i \in 1..(Len(arr) + 1) :
                  /\ i = Len(arr) + 1 \/ Compare(sortBy, x, arr[i]) < 0
                  /\ \A j \in 1..(i - 1) : ~(Compare(sortBy, x, arr[j]) < 0)
    IN  SubSeq(arr, 1, at - 1) \o << x >> \o SubSeq(arr, at, Len(arr))

\* Array.prototype.sort (stable): the first n elements of arr, sorted.
RECURSIVE SortPrefix(_, _, _)
SortPrefix(arr, n, sortBy) ==
    IF n = 0 THEN << >>
    ELSE Insert(SortPrefix(arr, n - 1, sortBy), arr[n], sortBy)

ArraySort(arr, sortBy) == SortPrefix(arr, Len(arr), sortBy)

(***************************************************************************)
(* SearchApis: the filter effect                                           *)
(***************************************************************************)

\* The search strings the user types: "", "pay", "PAY", "x".
Queries == { << >>, <<112, 97, 121>>, <<80, 65, 89>>, <<120>> }

AuthTypes == {"apiKey", "oauth2", "none"}

SortKeys == {"name", "date", "popularity", "rating"}

\* useState<Filters>: the filters of a freshly mounted page.
InitialFilters == [category |-> "all", authType |-> "all", sortBy |-> "popularity"]

\* let results = apis: results names the apis array itself.
NoCopy(arr) == [array |-> arr, isApis |-> TRUE]

\* let results = [...apis]: results is a new array, not the apis array.
SpreadCopy(arr) == [array |-> arr, isApis |-> FALSE]

\* The text filter matching on records whose name it has lower-cased first.
TextFilterLoweringNames(results, query_) ==
    LET query == ToLowerCase(query_)
        lowered == [i \in 1..Len(results) |->
                      [results[i] EXCEPT !.name = ToLowerCase(@)]]
    IN  SelectSeq(lowered, LAMBDA api :
            \/ Includes(api.name, query)
            \/ Includes(ToLowerCase(api.description), query)
            \/ \E t \in 1..Len(api.tags) :
                   Includes(ToLowerCase(api.tags[t]), query))

\* The text filter with the query taken as typed.
TextFilterRawQuery(results, query_) ==
    SelectSeq(results, LAMBDA api :
        \/ Includes(ToLowerCase(api.name), query_)
        \/ Includes(ToLowerCase(api.description), query_)
        \/ \E t \in 1..Len(api.tags) :
               Includes(ToLowerCase(api.tags[t]), query_))

\* The text filter: the lower-cased query occurs in the lower-cased name,
\* description or one of the tags.
TextFilter(results, query_) ==
    LET query == ToLowerCase(query_)
    IN  SelectSeq(results, LAMBDA api :
            \/ Includes(ToLowerCase(api.name), query)
            \/ Includes(ToLowerCase(api.description), query)
            \/ \E t \in 1..Len(api.tags) :
                   Includes(ToLowerCase(api.tags[t]), query))

\* results.filter((api) => api.category_id === filters.category)
CategoryFilter(results, category) ==
    SelectSeq(results, LAMBDA api : api.category_id = category)

\* The auth-type filter taking "none" for no filter at all.
AuthTypeFilterNoneIsAll(results, authType) ==
    IF authType = "none" THEN results
    ELSE SelectSeq(results, LAMBDA api : api.auth_type = authType)

\* apis.filter(...) where results.filter(...) is meant.
AuthTypeFilterOfApis(results, authType) ==
    SelectSeq(apis, LAMBDA api : api.auth_type = authType)

\* results.filter((api) => api.auth_type === filters.authType)
AuthTypeFilter(results, authType) ==
    SelectSeq(results, LAMBDA api : api.auth_type = authType)

\* Array.prototype.filter returns a new array.
Filtered(arr) == [array |-> arr, isApis |-> FALSE]

\* The filter and sort steps of the effect on the non-empty list apis_:
\* the array handed to setFilteredApis and the apis array afterwards (sort
\* works in place on whatever array results names).
FilterSort(apis_, query, f) ==
    LET r0 == SpreadCopy(apis_)
        r1 == IF query # << >>
              THEN Filtered(TextFilter(r0.array, query)) ELSE r0
        r2 == IF f.category # "all"
              THEN Filtered(CategoryFilter(r1.array, f.category)) ELSE r1
        r3 == IF f.authType # "all"
              THEN Filtered(AuthTypeFilter(r2.array, f.authType)) ELSE r2
        sorted == IF f.sortBy \in SortKeys
                  THEN ArraySort(r3.array, f.sortBy) ELSE r3.array
    IN  [ results |-> sorted,
          apis    |-> IF r3.isApis THEN sorted ELSE apis_ ]

\* authTypes[filters.authType]
AuthTypeLabel(authType) ==
    CASE authType = "apiKey" -> "API Key"
      [] authType = "oauth2" -> "OAuth 2.0"
      [] authType = "none"   -> "Sin autenticacion"
      [] OTHER               -> "undefined"

\* The chips of the active filters: the category chip when the category is
\* found among the fetched categories, then the auth chip.
ActiveChips(f, cats) ==
    LET category == MapLookup(cats, "id", f.category)
    IN  (IF f.category # "all" /\ category # Undefined
         THEN << [kind |-> "Categoria", label |-> category.name] >>
         ELSE << >>)
        \o
        (IF f.authType # "all"
         THEN << [kind |-> "Auth", label |-> AuthTypeLabel(f.authType)] >>
         ELSE << >>)

\* The effect run after a render that changed searchQuery, filters, apis or
\* categories: the values of apis, filteredApis and activeFilters it leaves.
\* With an empty apis list it returns before touching anything.
FilterEffect(apis_, cats, query, f, filteredBefore, activeBefore) ==
    IF Len(apis_) = 0
    THEN [ apis |-> apis_, filteredApis |-> filteredBefore,
           activeFilters |-> activeBefore ]
    ELSE LET fs == FilterSort(apis_, query, f)
         IN  [ apis |-> fs.apis, filteredApis |-> fs.results,
               activeFilters |-> ActiveChips(f, cats) ]

(***************************************************************************)
(* SearchApis: the page                                                    *)
(***************************************************************************)

\* The state of a freshly mounted search page.
SearchMounted ==
    /\ loading = TRUE
    /\ apis = << >>
    /\ filteredApis = << >>
    /\ categories = << >>
    /\ searchQuery = << >>
    /\ filters = InitialFilters
    /\ activeFilters = << >>

\* The state of a dashboard that is not mounted yet.
DashboardIdle ==
    /\ dLoading = TRUE
    /\ dApis = << >>
    /\ metrics = Undefined

\* The state of a freshly mounted detail page.
ViewMounted ==
    /\ vLoading = TRUE
    /\ vApi = Undefined
    /\ vRoute = Undefined
    /\ vInFlight = {}
    /\ vChanges = 0

\* No createApi call, no fetchApis call beside it, no request issued yet.
FlowsIdle ==
    /\ issued = << >>
    /\ create = [ pc |-> "idle", page |-> FALSE, apiData |-> Undefined,
                  api |-> Undefined, result |-> Undefined, calls |-> 0 ]
    /\ fetch = [ pc |-> "idle", apisData |-> << >>, categoriesData |-> << >>,
                 statsData |-> << >>, result |-> << >> ]
    /\ addApi = [loading |-> FALSE, navigatedTo |-> Undefined]

\* State after the render that follows a state change: the effect has run.
Rendered(apis_, cats, query, f, filteredBefore) ==
    \E eff \in { FilterEffect(apis_, cats, query, f, filteredBefore, activeFilters) } :
        /\ apis' = eff.apis
        /\ filteredApis' = eff.filteredApis
        /\ activeFilters' = eff.activeFilters
        /\ categories' = cats
        /\ searchQuery' = query
        /\ filters' = f

\* loadData: both fetches settle, the lists are stored, loading ends.
LoadData ==
    /\ loading = TRUE
    /\ LET a == FetchApis(store)
           c == FetchApiCategories(store)
       IN  /\ Rendered(a.data, c.data, searchQuery, filters, a.data)
           /\ toasts' = toasts \o a.toasts \o c.toasts
    /\ loading' = FALSE
    /\ UNCHANGED << store, now, dashVars, viewVars, flowVars >>

\* onChange of the search box.
SetSearchQuery(q) ==
    /\ loading = FALSE
    /\ Rendered(apis, categories, q, filters, filteredApis)
    /\ UNCHANGED << store, now, toasts, loading, dashVars, viewVars, flowVars >>

\* onValueChange of the category select: "all" or a fetched category.
SetCategory(c) ==
    /\ loading = FALSE
    /\ c = "all" \/ \E i \in 1..Len(categories) : categories[i].id = c
    /\ Rendered(apis, categories, searchQuery,
                [filters EXCEPT !.category = c], filteredApis)
    /\ UNCHANGED << store, now, toasts, loading, dashVars, viewVars, flowVars >>

\* onValueChange of the authentication select.
SetAuthType(a) ==
    /\ loading = FALSE
    /\ Rendered(apis, categories, searchQuery,
                [filters EXCEPT !.authType = a], filteredApis)
    /\ UNCHANGED << store, now, toasts, loading, dashVars, viewVars, flowVars >>

\* onValueChange of the sort select.
SetSortBy(k) ==
    /\ loading = FALSE
    /\ Rendered(apis, categories, searchQuery,
                [filters EXCEPT !.sortBy = k], filteredApis)
    /\ UNCHANGED << store, now, toasts, loading, dashVars, viewVars, flowVars >>

\* resetFilters, behind the button shown when a chip or a query is present.
ResetFilters ==
    /\ loading = FALSE
    /\ Len(activeFilters) > 0 \/ searchQuery # << >>
    /\ Rendered(apis, categories, << >>, InitialFilters, filteredApis)
    /\ UNCHANGED << store, now, toasts, loading, dashVars, viewVars, flowVars >>

\* removeFilter, behind the X of a chip.
RemoveFilter(chip) ==
    /\ loading = FALSE
    /\ \E i \in 1..Len(activeFilters) : activeFilters[i] = chip
    /\ LET f == IF chip.kind = "Categoria"
                THEN [filters EXCEPT !.category = "all"]
                ELSE IF chip.kind = "Auth"
                THEN [filters EXCEPT !.authType = "all"]
                ELSE filters
       IN  Rendered(apis, categories, searchQuery, f, filteredApis)
    /\ UNCHANGED << store, now, toasts, loading, dashVars, viewVars, flowVars >>

\* The chips a page can show.
Chips ==
    { [kind |-> "Categoria", label |-> CategoryRows[i].name] :
        i \in 1..Len(CategoryRows) }
    \cup { [kind |-> "Auth", label |-> AuthTypeLabel(a)] : a \in AuthTypes }

(***************************************************************************)
(* Dates                                                                   *)
(***************************************************************************)

\* The days of the months of a year without a leap day.
DaysInMonth == << 31, 28, 31, 30, 31, 30, 31, 31, 30, 31, 30, 31 >>

\* The days of the year before the first day of month m (0 = January).
RECURSIVE MonthStart(_)
MonthStart(m) == IF m = 0 THEN 0 ELSE MonthStart(m - 1) + DaysInMonth[m]

YearDays == MonthStart(12)

\* getFullYear, getMonth and getDate of day number n.
DateOf(n) ==
    LET doy   == ((n - 1) % YearDays) + 1
        month == CHOOSE m \in 0..11 :
                     MonthStart(m) < doy /\ doy <= MonthStart(m + 1)
    IN  [ year  |-> ((n - 1) \div YearDays) + 1,
          month |-> month,
          date  |-> doy - MonthStart(month) ]

\* The day number of (year, month, date) as Date normalises it: a month
\* outside 0..11 moves the year, a date past the end of the month runs on
\* into the following month.
DayNumber(year, month, date) ==
    (year + (month \div 12) - 1) * YearDays + MonthStart(month % 12) + date

\* oneMonthAgo.setMonth(oneMonthAgo.getMonth() - 1)
OneMonthAgo(n) ==
    LET d == DateOf(n) IN DayNumber(d.year, d.month - 1, d.date)

\* The evaluation instants: 2 March to 3 April of year 2.
NowDays == 426..458

(***************************************************************************)
(* apiService: getDashboardMetrics                                         *)
(***************************************************************************)

\* Math.random(), as the values Math.floor(Math.random() * 1000) and
\* Math.floor(Math.random() * 100000) take: the active users draw and the
\* six monthly draws.
RandomDraws ==
    { [users |-> u, calls |-> c] :
        u \in {0, 999},
        c \in { [i \in 1..6 |-> 0],
                [i \in 1..6 |-> IF i % 2 = 1 THEN 99999 ELSE 12345] } }

\* The reduce summing the uptime field where the total calls are meant.
RECURSIVE SumUptime(_, _)
SumUptime(list, n) ==
    IF n = 0 THEN 0
    ELSE SumUptime(list, n - 1) + UptimeOrZero(list[n])

\* apis.reduce((sum, api) => sum + (api.stats?.total_calls || 0), 0) over
\* the first n records.
RECURSIVE SumTotalCalls(_, _)
SumTotalCalls(list, n) ==
    IF n = 0 THEN 0
    ELSE SumTotalCalls(list, n - 1) + TotalCallsOrZero(list[n])

\* The records created after oneMonthAgo.
NewApisLastMonth(list, now_) ==
    Cardinality({ i \in 1..Len(list) : list[i].created_at > OneMonthAgo(now_) })

\* Object.values(categoryCounts) after the first n records: one entry per
\* resolved category, in order of first appearance, with its member count.
RECURSIVE CategoryCounts(_, _)
CategoryCounts(list, n) ==
    IF n = 0 THEN << >>
    ELSE LET before == CategoryCounts(list, n - 1)
             api    == list[n]
         IN  IF api.category = Undefined THEN before
             ELSE IF \E k \in 1..Len(before) : before[k].id = api.category.id
             THEN [k \in 1..Len(before) |->
                     IF before[k].id = api.category.id
                     THEN [before[k] EXCEPT !.count = @ + 1]
                     ELSE before[k]]
             ELSE before \o << [ id |-> api.category.id,
                                 name |-> api.category.name, count |-> 1 ] >>

\* The percentage cut off below the decimal point instead of rounded.
PercentageTruncated(count, totalApis) == (100 * count) \div totalApis

\* Math.round(count / totalApis * 100): the nearest integer, halves up.
Percentage(count, totalApis) ==
    (200 * count + totalApis) \div (2 * totalApis)

\* Array.prototype.slice(0, n)
Slice(arr, n) == SubSeq(arr, 1, IF Len(arr) < n THEN Len(arr) ELSE n)

\* The first five categories met, without the sort by members.
PopularCategoriesUnsorted(list) ==
    LET top == Slice(CategoryCounts(list, Len(list)), 5)
    IN  [k \in 1..Len(top) |->
           [ name |-> top[k].name,
             percentage |-> Percentage(top[k].count, Len(list)) ]]

\* The five categories with most members, as percentages of all records.
PopularCategories(list) ==
    LET top == Slice(ArraySort(CategoryCounts(list, Len(list)), "count"), 5)
    IN  [k \in 1..Len(top) |->
           [ name |-> top[k].name,
             percentage |-> Percentage(top[k].count, Len(list)) ]]

\* The three records with most calls.
TopApis(list) ==
    LET top == Slice(ArraySort(list, "popularity"), 3)
    IN  [k \in 1..Len(top) |->
           [ id |-> top[k].id, name |-> top[k].name,
             calls |-> TotalCallsOrZero(top[k]),
             uptime |-> UptimeOrDefault(top[k]) ]]

\* getDashboardMetrics with a random draw added to the total calls.
GetDashboardMetricsNoisyTotal(st, now_, rnd) ==
    LET fetched == FetchApis(st)
        list    == fetched.data
    IN  [ data |->
            [ totalApis         |-> Len(list),
              totalApiCalls     |-> SumTotalCalls(list, Len(list)) + rnd.calls[1],
              newApisLastMonth  |-> NewApisLastMonth(list, now_),
              activeUsers       |-> rnd.users + 1000,
              popularCategories |-> PopularCategories(list),
              apiCallsOverTime  |-> [i \in 1..6 |->
                                       800000 + (i - 1) * 150000 + rnd.calls[i]],
              topApis           |-> TopApis(list) ],
          toasts |-> fetched.toasts ]

\* getDashboardMetrics at the instant now_ with the random draws rnd.
GetDashboardMetrics(st, now_, rnd) ==
    LET fetched == FetchApis(st)
        list    == fetched.data
    IN  [ data |->
            [ totalApis         |-> Len(list),
              totalApiCalls     |-> SumTotalCalls(list, Len(list)),
              newApisLastMonth  |-> NewApisLastMonth(list, now_),
              activeUsers       |-> rnd.users + 1000,
              popularCategories |-> PopularCategories(list),
              apiCallsOverTime  |-> [i \in 1..6 |->
                                       800000 + (i - 1) * 150000 + rnd.calls[i]],
              topApis           |-> TopApis(list) ],
          toasts |-> fetched.toasts ]

(***************************************************************************)
(* Dashboard: the page                                                     *)
(***************************************************************************)

\* loadData: fetchApis and getDashboardMetrics both settle, their results
\* are stored, loading ends.
DashboardLoad(rnd) ==
    /\ dLoading = TRUE
    /\ \E a \in { FetchApis(store) }, m \in { GetDashboardMetrics(store, now, rnd) } :
          /\ dApis' = a.data
          /\ metrics' = m.data
          /\ toasts' = toasts \o a.toasts \o m.toasts
    /\ dLoading' = FALSE
    /\ UNCHANGED << store, now, searchVars, viewVars, flowVars >>

DashInit ==
    /\ store \in Stores
    /\ now \in NowDays
    /\ toasts = << >>
    /\ SearchMounted
    /\ DashboardIdle
    /\ ViewMounted
    /\ FlowsIdle

DashNext == \E rnd \in RandomDraws : DashboardLoad(rnd)

DashSpec == DashInit /\ [][DashNext]_vars

\* The dashboard over the summary stores, at one instant.
SummaryInit ==
    /\ store \in SummaryStores
    /\ now = 426
    /\ toasts = << >>
    /\ SearchMounted
    /\ DashboardIdle
    /\ ViewMounted
    /\ FlowsIdle

SummarySpec == SummaryInit /\ [][DashNext]_vars

(***************************************************************************)
(* The reads of the pages: SearchApis loadData and ViewApi loadApi         *)
(***************************************************************************)

\* The longest list of API rows the reads are checked on.
MaxRead == 2

\* The identifiers a detail page is opened with: those of the listings and
\* one that no listing has.
RouteIds == 1..(MaxRead + 1)

\* loadApi of the detail page opened with the route parameter id.
LoadApi(id) ==
    /\ vLoading = TRUE
    /\ vRoute = Undefined
    /\ \E r \in { FetchApiById(store, id) } :
          /\ vApi' = r.data
          /\ toasts' = toasts \o r.toasts
          /\ issued' = issued \o r.requests
    /\ vRoute' = [id |-> id]
    /\ vLoading' = FALSE
    /\ UNCHANGED << store, now, searchVars, dashVars, vInFlight, vChanges,
                    create, fetch, addApi >>

\* The stores the reads start from: every list of at most MaxRead listings
\* of any shape, with any of the four collections unavailable, and with the
\* categories as they are or with a repeated category identifier.
ReadStores ==
    { [ StoreOf(ps, down) EXCEPT !.api_categories = cats ] :
        ps \in SeqsUpTo(DOMAIN Profiles, MaxRead),
        down \in SUBSET {"apis", "api_categories", "api_stats", "api_endpoints"},
        cats \in {CategoryRows, DuplicatedCategoryRows} }

ReadInit ==
    /\ store \in ReadStores
    /\ now = 426
    /\ toasts = << >>
    /\ SearchMounted
    /\ DashboardIdle
    /\ ViewMounted
    /\ FlowsIdle

ReadNext ==
    \/ LoadData
    \/ \E id \in RouteIds : LoadApi(id)

ReadSpec == ReadInit /\ [][ReadNext]_vars

(***************************************************************************)
(* createApi and the add-listing page, request by request                  *)
(***************************************************************************)

\* The number of createApi calls of a behaviour.
MaxSubmissions == 1

\* The stores a listing is added to: empty or holding one listing.
CreateStores == { StoreOf(ps, {}) : ps \in SeqsUpTo(FormShapes, 1) }

\* The argument of createApi made from the shape p: the listing's columns,
\* its statistics when the caller supplies them, and its endpoints.
ApiData(p, withStats) ==
    [ name |-> Profiles[p].name, description |-> Profiles[p].description,
      tags |-> Profiles[p].tags, category_id |-> Profiles[p].category_id,
      auth_type |-> Profiles[p].auth_type,
      stats |-> IF withStats /\ Len(Profiles[p].stats) = 1
                THEN Profiles[p].stats[1] ELSE Undefined,
      endpoints |-> Profiles[p].endpoints ]

\* createApi is entered and reaches its first await, the apis insert.
Enter(apiData, page) ==
    /\ create.pc \in {"idle", "done"}
    /\ create.calls < MaxSubmissions
    /\ create' = [ pc |-> "apis", page |-> page, apiData |-> apiData,
                   api |-> Undefined, result |-> Undefined,
                   calls |-> create.calls + 1 ]

\* onSubmit: the page sets loading and calls createApi with the values of
\* the form, the tags and the endpoints; it supplies no statistics.
Submit(p) ==
    /\ addApi.loading = FALSE
    /\ Enter(ApiData(p, FALSE), TRUE)
    /\ addApi' = [addApi EXCEPT !.loading = TRUE]
    /\ UNCHANGED << store, now, toasts, searchVars, dashVars, viewVars,
                    issued, fetch >>

\* createApi called with statistics, by a caller other than the page.
CallCreateApi(p) ==
    /\ Len(Profiles[p].stats) = 1
    /\ Enter(ApiData(p, TRUE), FALSE)
    /\ UNCHANGED << store, now, toasts, searchVars, dashVars, viewVars,
                    issued, fetch, addApi >>

\* createApi returns result after showing the notifications shown; when the
\* page called it, onSubmit goes on: with a record it shows "API creada" and
\* navigates to /view/<id>, with null it throws, catches and shows "Error";
\* its finally clause clears loading.
Return(result, shown) ==
    /\ create' = [create EXCEPT !.pc = "done", !.result = result]
    /\ toasts' = toasts \o shown \o
                   (IF ~create.page THEN << >>
                    ELSE IF result # Undefined THEN << "API creada" >>
                    ELSE << "Error" >>)
    /\ addApi' = IF ~create.page THEN addApi
                 ELSE [ loading |-> FALSE,
                        navigatedTo |-> IF result # Undefined
                                        THEN [id |-> result.id]
                                        ELSE addApi.navigatedTo ]

\* The catch clause of createApi: the notification "Error", then null.
Catch == Return(Undefined, << "Error" >>)

\* The apis insert settles. The store gives the new row the next identifier
\* and the current instant as created_at.
InsertApi ==
    /\ create.pc = "apis"
    /\ \E ok \in BOOLEAN :
        \E row \in { [ id |-> Len(store.apis) + 1,
                       name |-> create.apiData.name,
                       description |-> create.apiData.description,
                       tags |-> create.apiData.tags,
                       category_id |-> create.apiData.category_id,
                       auth_type |-> create.apiData.auth_type,
                       created_at |-> now ] } :
          /\ issued' = Append(issued, Request("insert", "apis", row.id, ok))
          /\ IF ok
             THEN /\ store' = [store EXCEPT !.apis = Append(@, row)]
                  /\ create' = [create EXCEPT !.pc = "stats", !.api = row]
                  /\ UNCHANGED << toasts, addApi >>
             ELSE /\ Catch
                  /\ UNCHANGED store
    /\ UNCHANGED << now, searchVars, dashVars, viewVars, fetch >>

\* The api_stats row createApi inserts for the API api_id: the supplied
\* statistics, or api_id alone, the store filling the other columns with
\* their defaults (not part of the sources; taken as 0 here).
StatsRowOf(apiData, api_id) ==
    IF apiData.stats # Undefined
    THEN [ api_id |-> api_id, total_calls |-> apiData.stats.total_calls,
           uptime |-> apiData.stats.uptime ]
    ELSE [ api_id |-> api_id, total_calls |-> 0, uptime |-> 0 ]

\* A stats insert that deletes the apis row again when it fails.
InsertStatsRollingBack ==
    /\ create.pc = "stats"
    /\ \E ok \in BOOLEAN :
          /\ issued' = Append(issued,
                              Request("insert", "api_stats", create.api.id, ok))
          /\ IF ok
             THEN /\ store' = [store EXCEPT !.api_stats =
                                  Append(@, StatsRowOf(create.apiData, create.api.id))]
                  /\ create' = [create EXCEPT !.pc =
                                  IF Len(create.apiData.endpoints) > 0
                                  THEN "endpoints" ELSE "read"]
                  /\ UNCHANGED << toasts, addApi >>
             ELSE /\ Catch
                  /\ store' = [store EXCEPT !.apis =
                                  SelectSeq(@, LAMBDA r : r.id # create.api.id)]
    /\ UNCHANGED << now, searchVars, dashVars, viewVars, fetch >>

\* A stats insert followed by the endpoints insert whatever the number of
\* supplied endpoints.
InsertStatsThenAlwaysEndpoints ==
    /\ create.pc = "stats"
    /\ \E ok \in BOOLEAN :
          /\ issued' = Append(issued,
                              Request("insert", "api_stats", create.api.id, ok))
          /\ IF ok
             THEN /\ store' = [store EXCEPT !.api_stats =
                                  Append(@, StatsRowOf(create.apiData, create.api.id))]
                  /\ create' = [create EXCEPT !.pc = "endpoints"]
                  /\ UNCHANGED << toasts, addApi >>
             ELSE /\ Catch
                  /\ UNCHANGED store
    /\ UNCHANGED << now, searchVars, dashVars, viewVars, fetch >>

\* The api_stats insert settles; then the endpoints insert is issued only
\* for a non-empty list of endpoints.
InsertStats ==
    /\ create.pc = "stats"
    /\ \E ok \in BOOLEAN :
          /\ issued' = Append(issued,
                              Request("insert", "api_stats", create.api.id, ok))
          /\ IF ok
             THEN /\ store' = [store EXCEPT !.api_stats =
                                  Append(@, StatsRowOf(create.apiData, create.api.id))]
                  /\ create' = [create EXCEPT !.pc =
                                  IF Len(create.apiData.endpoints) > 0
                                  THEN "endpoints" ELSE "read"]
                  /\ UNCHANGED << toasts, addApi >>
             ELSE /\ Catch
                  /\ UNCHANGED store
    /\ UNCHANGED << now, searchVars, dashVars, viewVars, fetch >>

\* The api_endpoints rows of the supplied endpoints, each with the api_id.
EndpointRowsOf(apiData, api_id) ==
    [k \in 1..Len(apiData.endpoints) |->
       [ api_id |-> api_id, method |-> apiData.endpoints[k].method,
         path |-> apiData.endpoints[k].path ]]

\* The api_endpoints insert (one request for all the rows) settles.
InsertEndpoints ==
    /\ create.pc = "endpoints"
    /\ \E ok \in BOOLEAN :
          /\ issued' = Append(issued,
                              Request("insert", "api_endpoints", create.api.id, ok))
          /\ IF ok
             THEN /\ store' = [store EXCEPT !.api_endpoints =
                                  @ \o EndpointRowsOf(create.apiData, create.api.id)]
                  /\ create' = [create EXCEPT !.pc = "read"]
                  /\ UNCHANGED << toasts, addApi >>
             ELSE /\ Catch
                  /\ UNCHANGED store
    /\ UNCHANGED << now, searchVars, dashVars, viewVars, fetch >>

\* return await fetchApiById(api.id): the read of the created listing, with
\* the apis collection readable or not at that moment.
ReadBack ==
    /\ create.pc = "read"
    /\ \E down \in {{}, {"apis"}} :
        \E r \in { FetchApiById([store EXCEPT !.down = down], create.api.id) } :
          /\ issued' = issued \o r.requests
          /\ Return(r.data, r.toasts)
    /\ UNCHANGED << store, now, searchVars, dashVars, viewVars, fetch >>

(***************************************************************************)
(* fetchApis beside a createApi call, fetch by fetch                       *)
(***************************************************************************)

\* The apis fetch of fetchApis settles: an error ends the call with the
\* notification "Error" and [], no row ends it with [].
FetchApisRows ==
    /\ fetch.pc = "idle"
    /\ \E res \in { SelectAll(store, "apis") } :
          IF res.error
          THEN /\ fetch' = [fetch EXCEPT !.pc = "done", !.result = << >>]
               /\ toasts' = Append(toasts, "Error")
          ELSE /\ fetch' = [fetch EXCEPT
                               !.pc = IF Len(res.data) = 0 THEN "done"
                                      ELSE "categories",
                               !.apisData = res.data]
               /\ UNCHANGED toasts
    /\ UNCHANGED << store, now, searchVars, dashVars, viewVars, issued,
                    create, addApi >>

\* The api_categories fetch of fetchApis settles.
FetchCategoriesRows ==
    /\ fetch.pc = "categories"
    /\ fetch' = [fetch EXCEPT
                   !.pc = "stats",
                   !.categoriesData = DataOrEmpty(SelectAll(store, "api_categories"))]
    /\ UNCHANGED << store, now, toasts, searchVars, dashVars, viewVars, issued,
                    create, addApi >>

\* The api_stats fetch of fetchApis settles.
FetchStatsRows ==
    /\ fetch.pc = "stats"
    /\ fetch' = [fetch EXCEPT
                   !.pc = "endpoints",
                   !.statsData = DataOrEmpty(SelectAll(store, "api_stats"))]
    /\ UNCHANGED << store, now, toasts, searchVars, dashVars, viewVars, issued,
                    create, addApi >>

\* The api_endpoints fetch of fetchApis settles and the call returns the
\* enriched records.
FetchEndpointsRows ==
    /\ fetch.pc = "endpoints"
    /\ \E endpointsData \in { DataOrEmpty(SelectAll(store, "api_endpoints")) } :
          fetch' = [fetch EXCEPT
                      !.pc = "done",
                      !.result = [i \in 1..Len(fetch.apisData) |->
                                    Enrich(fetch.apisData[i], fetch.categoriesData,
                                           fetch.statsData, endpointsData)]]
    /\ UNCHANGED << store, now, toasts, searchVars, dashVars, viewVars, issued,
                    create, addApi >>

CreateInit ==
    /\ store \in CreateStores
    /\ now = 426
    /\ toasts = << >>
    /\ SearchMounted
    /\ DashboardIdle
    /\ ViewMounted
    /\ FlowsIdle

CreateNext ==
    \/ \E p \in FormShapes : Submit(p)
    \/ \E p \in FormShapes : CallCreateApi(p)
    \/ InsertApi
    \/ InsertStats
    \/ InsertEndpoints
    \/ ReadBack
    \/ FetchApisRows
    \/ FetchCategoriesRows
    \/ FetchStatsRows
    \/ FetchEndpointsRows

CreateSpec == CreateInit /\ [][CreateNext]_vars

(***************************************************************************)
(* ViewApi: the effect of the detail page, call by call                    *)
(***************************************************************************)

\* The number of times the route of a mounted detail page changes.
MaxRouteChanges == 2

\* The stores a detail page reads: at most MaxRead listings made with the
\* form, with the apis collection readable or not.
ViewStores ==
    { StoreOf(ps, down) :
        ps \in SeqsUpTo(FormShapes, MaxRead), down \in {{}, {"apis"}} }

\* The detail page after its first render and the first run of its effect:
\* without an id the effect returns at once, with an id it has called
\* fetchApiById(id), which has not settled yet.
ViewInit ==
    /\ store \in ViewStores
    /\ now = 426
    /\ toasts = << >>
    /\ SearchMounted
    /\ DashboardIdle
    /\ FlowsIdle
    /\ vLoading = TRUE
    /\ vApi = Undefined
    /\ vChanges = 0
    /\ \/ vRoute = Undefined /\ vInFlight = {}
       \/ \E id \in RouteIds : vRoute = [id |-> id] /\ vInFlight = {id}

\* The route changes to /view/id: the effect runs again (its dependency id
\* changed), sets loading and calls fetchApiById(id); nothing cancels the
\* calls of earlier runs.
ChangeRoute(id) ==
    /\ vChanges < MaxRouteChanges
    /\ vRoute # [id |-> id]
    /\ vRoute' = [id |-> id]
    /\ vLoading' = TRUE
    /\ vInFlight' = vInFlight \cup {id}
    /\ vChanges' = vChanges + 1
    /\ UNCHANGED << store, now, toasts, searchVars, dashVars, vApi, flowVars >>

\* The fetchApiById(id) call of some run of the effect settles: that run
\* stores the result and clears loading.
SettleApi(id) ==
    /\ id \in vInFlight
    /\ \E r \in { FetchApiById(store, id) } :
          /\ vApi' = r.data
          /\ toasts' = toasts \o r.toasts
          /\ issued' = issued \o r.requests
    /\ vLoading' = FALSE
    /\ vInFlight' = vInFlight \ {id}
    /\ UNCHANGED << store, now, searchVars, dashVars, vRoute, vChanges,
                    create, fetch, addApi >>

ViewNext ==
    \/ \E id \in RouteIds : ChangeRoute(id)
    \/ \E id \in RouteIds : SettleApi(id)

ViewSpec == ViewInit /\ [][ViewNext]_vars

\* Every call to the store settles: a fetchApiById call in flight is
\* eventually answered.
ViewFairSpec ==
    ViewSpec /\ \A id \in RouteIds : WF_vars(SettleApi(id))

(***************************************************************************)
(* The search page on its own                                              *)
(***************************************************************************)

\* The search page does not read the clock: one instant stands for all.
Init ==
    /\ store \in Stores
    /\ now = 426
    /\ toasts = << >>
    /\ SearchMounted
    /\ DashboardIdle
    /\ ViewMounted
    /\ FlowsIdle

Next ==
    \/ LoadData
    \/ \E q \in Queries : SetSearchQuery(q)
    \/ \E c \in {"all"} \cup { CategoryRows[i].id : i \in 1..Len(CategoryRows) } :
          SetCategory(c)
    \/ \E a \in {"all"} \cup AuthTypes : SetAuthType(a)
    \/ \E k \in SortKeys : SetSortBy(k)
    \/ ResetFilters
    \/ \E chip \in Chips : RemoveFilter(chip)

Spec == Init /\ [][Next]_vars

(***************************************************************************)
(* Properties of the filter/sort step                                      *)
(***************************************************************************)

\* r is one of the records of list.
InList(r, list) == \E i \in 1..Len(list) : list[i] = r

\* sub occurs in s: s is some prefix, then sub, then some suffix.
Occurs(sub, s) ==
    \E i \in 0..Len(s) : \E j \in i..Len(s) :
        /\ j - i = Len(sub)
        /\ \A k \in 1..Len(sub) : s[i + k] = sub[k]

\* The lower-cased query q occurs in the lower-cased name, description or a
\* tag of api; an empty query matches every record.
MatchesText(api, q) ==
    \/ Len(q) = 0
    \/ Occurs(ToLowerCase(q), ToLowerCase(api.name))
    \/ Occurs(ToLowerCase(q), ToLowerCase(api.description))
    \/ \E t \in 1..Len(api.tags) : Occurs(ToLowerCase(q), ToLowerCase(api.tags[t]))

MatchesCategory(api, category) == category = "all" \/ api.category_id = category

MatchesAuthType(api, authType) == authType = "all" \/ api.auth_type = authType

\* C1: every record of the list the filter/sort step produces is a record
\* of the fetched list, and no record occurs in it twice.
C1_ResultFromFetched ==
    /\ \A i \in 1..Len(filteredApis) : InList(filteredApis[i], apis)
    /\ \A i, j \in 1..Len(filteredApis) :
          i # j => filteredApis[i].id # filteredApis[j].id

\* C1 witness: a query left two of three fetched records, in another order.
C1_Witness ==
    /\ loading = FALSE
    /\ searchQuery # << >>
    /\ Len(apis) = 3
    /\ Len(filteredApis) = 2
    /\ filteredApis[1].id > filteredApis[2].id

\* C2: among the records the category and auth-type filters let through, a
\* record is in the result exactly when the query is empty or the lower-cased
\* query occurs in its lower-cased name, description or a tag; and any other
\* letter-casing of the query gives the same result.
C2_TextFilter ==
    /\ \A j \in 1..Len(apis) :
          ( /\ MatchesCategory(apis[j], filters.category)
            /\ MatchesAuthType(apis[j], filters.authType) )
          => ( InList(apis[j], filteredApis) <=> MatchesText(apis[j], searchQuery) )
    /\ \A q \in Queries :
          ( Len(apis) > 0 /\ ToLowerCase(q) = ToLowerCase(searchQuery) )
          => FilterSort(apis, q, filters).results = filteredApis

\* C2 witness: the query "PAY" keeps a record that matches by a tag only and
\* one that matches by its description only, and drops "Wea".
C2_Witness ==
    /\ loading = FALSE
    /\ searchQuery = <<80, 65, 89>>
    /\ filters.category = "all" /\ filters.authType = "all"
    /\ \E i \in 1..Len(filteredApis) : filteredApis[i].name = <<97, 98>>
    /\ \E i \in 1..Len(filteredApis) : filteredApis[i].name = <<80, 97, 121>>
    /\ \E j \in 1..Len(apis) : ~InList(apis[j], filteredApis)

\* C3: among the records the text filter lets through, a record is in the
\* result exactly when its category_id is the selected category or the
\* category filter is "all", and its auth_type is the selected auth type or
\* the auth-type filter is "all".
C3_CategoryAuthFilter ==
    \A j \in 1..Len(apis) :
        MatchesText(apis[j], searchQuery)
        => ( InList(apis[j], filteredApis)
             <=> ( /\ MatchesCategory(apis[j], filters.category)
                   /\ MatchesAuthType(apis[j], filters.authType) ) )

\* C3 witness: the auth-type filter "none" alone keeps some records and
\* drops others.
C3_Witness ==
    /\ loading = FALSE
    /\ searchQuery = << >>
    /\ filters.category = "all" /\ filters.authType = "none"
    /\ Len(filteredApis) > 0
    /\ Len(filteredApis) < Len(apis)

(***************************************************************************)
(* Properties of the ordering                                              *)
(***************************************************************************)

\* x comes strictly before y in the lexicographic order of the code units:
\* x is a proper prefix of y, or is smaller at the first difference.
LexLess(x, y) ==
    \E k \in 1..Len(y) :
        /\ \A m \in 1..(k - 1) : m <= Len(x) /\ x[m] = y[m]
        /\ k > Len(x) \/ x[k] < y[k]

\* a sorts no later than b in the collation order of localeCompare: the
\* letters decide whatever their case; between strings equal up to case the
\* one with the lower-case letter at the first difference comes first.
CollationLeq(a, b) ==
    IF ToLowerCase(a) # ToLowerCase(b)
    THEN LexLess(ToLowerCase(a), ToLowerCase(b))
    ELSE \/ a = b
         \/ \E k \in 1..Len(a) :
               /\ \A m \in 1..(k - 1) : a[m] = b[m]
               /\ a[k] # b[k]
               /\ a[k] = LowerChar(a[k])

\* api has a stats row attached.
HasStats(api) == "total_calls" \in DOMAIN api.stats

\* The total calls and the uptime of api, a missing stats row counted as
\* missing.
CallsOr(api, missing) == IF HasStats(api) THEN api.stats.total_calls ELSE missing

UptimeOr(api, missing) == IF HasStats(api) THEN api.stats.uptime ELSE missing

\* a may stand before b in a list ordered by sortBy; names are compared in
\* the order nameOrder ("collation" or "codeUnits").
KeyLeq(sortBy, nameOrder, a, b) ==
    CASE sortBy = "name" ->
           IF nameOrder = "collation" THEN CollationLeq(a.name, b.name)
           ELSE ~LexLess(b.name, a.name)
      [] sortBy = "date"       -> a.created_at >= b.created_at
      [] sortBy = "popularity" -> CallsOr(a, 0) >= CallsOr(b, 0)
      [] sortBy = "rating"     -> UptimeOr(a, 0) >= UptimeOr(b, 0)

\* The position in list of the record with the identifier of r.
PosIn(list, r) == CHOOSE k \in 1..Len(list) : list[k].id = r.id

\* list is ordered by sortBy: every adjacent pair is in order.
Ordered(list, sortBy, nameOrder) ==
    \A i \in 1..(Len(list) - 1) : KeyLeq(sortBy, nameOrder, list[i], list[i + 1])

\* Records of result with equal sort keys stand in the order they have in
\* input.
Stable(result, input, sortBy, nameOrder) ==
    \A i, j \in 1..Len(result) :
        ( /\ i < j
          /\ KeyLeq(sortBy, nameOrder, result[i], result[j])
          /\ KeyLeq(sortBy, nameOrder, result[j], result[i]) )
        => PosIn(input, result[i]) < PosIn(input, result[j])

\* C4 as stated: the result is ordered by the selected sort key, names in
\* lexicographic (code unit) order, and records with equal keys keep their
\* input order.
C4_LexicographicNames ==
    /\ Ordered(filteredApis, filters.sortBy, "codeUnits")
    /\ Stable(filteredApis, apis, filters.sortBy, "codeUnits")

\* C4 amended: the result is ordered by the selected sort key for every
\* adjacent pair, names in the collation order of localeCompare (letters
\* first, whatever their case, lower case before upper case between names
\* equal up to case), dates and total calls and uptime non-increasing with a
\* missing stats row counted as 0; records with equal keys keep their input
\* order.
C4_SortedStable ==
    /\ Ordered(filteredApis, filters.sortBy, "collation")
    /\ Stable(filteredApis, apis, filters.sortBy, "collation")

\* C4 witness: sorted by name, "pay" stands directly before "Wea", which
\* the fetched list has in the other order.
C4_Witness ==
    /\ loading = FALSE
    /\ filters.sortBy = "name"
    /\ \E i \in 1..(Len(filteredApis) - 1) :
          /\ filteredApis[i].name = <<112, 97, 121>>
          /\ filteredApis[i + 1].name = <<87, 101, 97>>
          /\ PosIn(apis, filteredApis[i]) > PosIn(apis, filteredApis[i + 1])

\* The filters of the effect, each skipped when inactive.
ApplyFilter(kind, list) ==
    CASE kind = "text" ->
           IF searchQuery # << >> THEN TextFilter(list, searchQuery) ELSE list
      [] kind = "category" ->
           IF filters.category # "all"
           THEN CategoryFilter(list, filters.category) ELSE list
      [] kind = "auth" ->
           IF filters.authType # "all"
           THEN AuthTypeFilter(list, filters.authType) ELSE list

\* The orders in which the three filters can be applied.
FilterOrders ==
    { << "text", "category", "auth" >>, << "text", "auth", "category" >>,
      << "category", "text", "auth" >>, << "category", "auth", "text" >>,
      << "auth", "text", "category" >>, << "auth", "category", "text" >> }

Range(list) == { list[i] : i \in 1..Len(list) }

\* C5: the result is the selected sort applied to the records that satisfy
\* all active filters, and the three filters applied in any order keep the
\* same records.
C5_FiltersThenSort ==
    Len(apis) > 0 =>
        /\ filteredApis =
             ArraySort(SelectSeq(apis, LAMBDA api :
                           /\ MatchesText(api, searchQuery)
                           /\ MatchesCategory(api, filters.category)
                           /\ MatchesAuthType(api, filters.authType)),
                       filters.sortBy)
        /\ \A o \in FilterOrders :
              Range(ApplyFilter(o[3], ApplyFilter(o[2], ApplyFilter(o[1], apis))))
              = Range(filteredApis)

\* C5 witness: all three filters are active and keep a part of three records.
C5_Witness ==
    /\ loading = FALSE
    /\ searchQuery # << >>
    /\ filters.category # "all"
    /\ filters.authType # "all"
    /\ Len(apis) = 3
    /\ Len(filteredApis) \in {1, 2}

\* C6: with no query, category "all" and auth type "all", a fetched list
\* that is already ordered by the selected sort key comes out unchanged.
C6_OrderedInputUnchanged ==
    ( /\ searchQuery = << >>
      /\ filters.category = "all"
      /\ filters.authType = "all"
      /\ Ordered(apis, filters.sortBy, "collation") )
    => filteredApis = apis

\* C6 witness: an ordered list of three records, the first two with equal
\* keys, went through the sort.
C6_Witness ==
    /\ loading = FALSE
    /\ searchQuery = << >>
    /\ filters.category = "all"
    /\ filters.authType = "all"
    /\ Len(apis) = 3
    /\ Ordered(apis, filters.sortBy, "collation")
    /\ KeyLeq(filters.sortBy, "collation", apis[2], apis[1])
    /\ ~KeyLeq(filters.sortBy, "collation", apis[3], apis[2])

\* C7: once fetched, the apis list keeps its records and their order through
\* every query, filter and sort-key change.
C7_ApisNeverMutated == [][loading = FALSE => apis' = apis]_vars

\* C7 witness: with no filter active the sort put three records in another
\* order than the fetched list has.
C7_Witness ==
    /\ loading = FALSE
    /\ searchQuery = << >>
    /\ filters.category = "all"
    /\ filters.authType = "all"
    /\ Len(apis) = 3
    /\ Len(filteredApis) = 3
    /\ filteredApis # apis

(***************************************************************************)
(* Properties of the dashboard summary                                     *)
(***************************************************************************)

\* The total calls of the records list[i..], a missing stats row counted
\* as 0.
RECURSIVE SumCallsFrom(_, _)
SumCallsFrom(list, i) ==
    IF i > Len(list) THEN 0
    ELSE CallsOr(list[i], 0) + SumCallsFrom(list, i + 1)

\* C8 as stated: a record without a stats row counts as 0 total calls and
\* 99.9 uptime in the popularity sort, in the rating sort, in totalApiCalls
\* and in the ordering and the entries of topApis.
C8_MissingStatsDefaults ==
    LET list == FetchApis(store).data
        m    == GetDashboardMetrics(store, now, CHOOSE r \in RandomDraws : TRUE).data
    IN  /\ filters.sortBy = "popularity" =>
              \A i \in 1..(Len(filteredApis) - 1) :
                  CallsOr(filteredApis[i], 0) >= CallsOr(filteredApis[i + 1], 0)
        /\ filters.sortBy = "rating" =>
              \A i \in 1..(Len(filteredApis) - 1) :
                  UptimeOr(filteredApis[i], 999) >= UptimeOr(filteredApis[i + 1], 999)
        /\ m.totalApiCalls = SumCallsFrom(list, 1)
        /\ \A k \in 1..(Len(m.topApis) - 1) :
              m.topApis[k].calls >= m.topApis[k + 1].calls
        /\ \A k \in 1..Len(m.topApis) : \A i \in 1..Len(list) :
              ( list[i].id = m.topApis[k].id /\ ~HasStats(list[i]) )
              => ( m.topApis[k].calls = 0 /\ m.topApis[k].uptime = 999 )

\* C9: totalApis is the number of API records and totalApiCalls the sum of
\* their total calls, a record without a stats row counted as 0.
C9_Totals ==
    dLoading = FALSE =>
        /\ metrics.totalApis = Len(dApis)
        /\ store.down = {} => metrics.totalApis = Len(store.apis)
        /\ metrics.totalApiCalls = SumCallsFrom(dApis, 1)

\* C9 witness: a summary of three records, one without a stats row, with
\* calls to count.
C9_Witness ==
    /\ dLoading = FALSE
    /\ metrics.totalApis = 3
    /\ \E i \in 1..Len(dApis) : ~HasStats(dApis[i])
    /\ metrics.totalApiCalls > 0

\* C10 as stated: newApisLastMonth is the number of records created within
\* the 30 days before the evaluation instant.
C10_Within30Days ==
    dLoading = FALSE =>
        metrics.newApisLastMonth =
            Cardinality({ i \in 1..Len(dApis) :
                            /\ dApis[i].created_at > now - 30
                            /\ dApis[i].created_at <= now })

(***************************************************************************)
(* Properties of the category distribution and the top APIs                *)
(***************************************************************************)

\* api has a category row attached.
HasCategory(api) == "name" \in DOMAIN api.category

\* The name the store has for the category c.
NameOf(c) ==
    LET k == CHOOSE k \in 1..Len(store.api_categories) :
                 store.api_categories[k].id = c
    IN  store.api_categories[k].name

\* The groups of the records of list by category identifier, each with the
\* number of its members: every record counts, or only those whose category
\* row is attached.
GroupCounts(list, everyRecord) ==
    LET member(i) == everyRecord \/ HasCategory(list[i])
        ids == { list[i].category_id : i \in { j \in 1..Len(list) : member(j) } }
    IN  [ c \in ids |->
            Cardinality({ i \in 1..Len(list) :
                            member(i) /\ list[i].category_id = c }) ]

\* pc names the five groups of counts with most members (all of them when
\* there are fewer), each once, in non-increasing order of their counts.
IsTopFive(pc, counts) ==
    LET groups == DOMAIN counts
        g(k) == CHOOSE c \in groups : NameOf(c) = pc[k].name
    IN  /\ Len(pc) = IF Cardinality(groups) < 5 THEN Cardinality(groups) ELSE 5
        /\ \A k \in 1..Len(pc) : \E c \in groups : NameOf(c) = pc[k].name
        /\ \A j, k \in 1..Len(pc) : j # k => pc[j].name # pc[k].name
        /\ \A k \in 1..(Len(pc) - 1) : counts[g(k)] >= counts[g(k + 1)]
        /\ \A c \in groups :
              (\A k \in 1..Len(pc) : g(k) # c)
              => \A k \in 1..Len(pc) : counts[c] <= counts[g(k)]

\* C11 as stated: popularCategories holds the groups of all API records by
\* category identifier with the 5 highest member counts (all groups if
\* fewer than 5), in non-increasing order of count.
C11_GroupsOfAllRecords ==
    dLoading = FALSE =>
        IsTopFive(metrics.popularCategories, GroupCounts(dApis, TRUE))

\* C11 amended: popularCategories holds the groups, by category identifier,
\* of the API records that have a category row attached, with the 5 highest
\* member counts (all groups if fewer than 5), in non-increasing order of
\* count; a record whose category was not found belongs to no group.
C11_GroupsOfResolvedRecords ==
    dLoading = FALSE =>
        IsTopFive(metrics.popularCategories, GroupCounts(dApis, FALSE))

\* C11 witness: seven records in six categories; the five entries start
\* with the one category that has two members, which is not the category of
\* the first record.
C11_Witness ==
    /\ dLoading = FALSE
    /\ Len(dApis) = 7
    /\ Cardinality(DOMAIN GroupCounts(dApis, FALSE)) = 6
    /\ Len(metrics.popularCategories) = 5
    /\ metrics.popularCategories[1].name # dApis[1].category.name
    /\ metrics.popularCategories[1].percentage
         > metrics.popularCategories[2].percentage

\* p is x / y * 100 rounded to the nearest integer, a half rounded up.
IsRounded(p, x, y) == 2 * p * y <= 200 * x + y /\ 200 * x + y < 2 * (p + 1) * y

RECURSIVE SumPercentagesFrom(_, _)
SumPercentagesFrom(pc, k) ==
    IF k > Len(pc) THEN 0
    ELSE pc[k].percentage + SumPercentagesFrom(pc, k + 1)

\* C13 as stated: the percentages of the entries of popularCategories sum
\* to at most 100.
C13_PercentagesAtMost100 ==
    dLoading = FALSE => SumPercentagesFrom(metrics.popularCategories, 1) <= 100

\* The record of dApis an entry of topApis stands for.
RecordOf(entry) == dApis[PosIn(dApis, entry)]

\* topApis has min(3, totalApis) entries for distinct records, in
\* non-increasing order of calls, equal calls in input order, and no record
\* left out outranks an entry.
TopApisRanked ==
    LET top == metrics.topApis
    IN  /\ Len(top) = IF metrics.totalApis < 3 THEN metrics.totalApis ELSE 3
        /\ \A k \in 1..Len(top) : \E i \in 1..Len(dApis) : dApis[i].id = top[k].id
        /\ \A j, k \in 1..Len(top) : j # k => top[j].id # top[k].id
        /\ \A k \in 1..(Len(top) - 1) :
              /\ CallsOr(RecordOf(top[k]), 0) >= CallsOr(RecordOf(top[k + 1]), 0)
              /\ CallsOr(RecordOf(top[k]), 0) = CallsOr(RecordOf(top[k + 1]), 0)
                 => PosIn(dApis, top[k]) < PosIn(dApis, top[k + 1])
        /\ \A i \in 1..Len(dApis) :
              (\A k \in 1..Len(top) : top[k].id # dApis[i].id)
              => \A k \in 1..Len(top) :
                    /\ CallsOr(dApis[i], 0) <= CallsOr(RecordOf(top[k]), 0)
                    /\ CallsOr(dApis[i], 0) = CallsOr(RecordOf(top[k]), 0)
                       => PosIn(dApis, top[k]) < i

\* Every entry of topApis carries the name and the calls of its record
\* (0 without a stats row).
TopApisNameAndCalls ==
    \A k \in 1..Len(metrics.topApis) :
        /\ metrics.topApis[k].name = RecordOf(metrics.topApis[k]).name
        /\ metrics.topApis[k].calls = CallsOr(RecordOf(metrics.topApis[k]), 0)

\* C14 as stated: topApis has length min(3, totalApis), is in non-increasing
\* order of calls (0 without a stats row) with ties in input order, leaves
\* out no record with more calls than an entry, and every entry carries the
\* id, name, calls and uptime of its record (99.9 without a stats row).
C14_TopApis ==
    dLoading = FALSE =>
        /\ TopApisRanked
        /\ TopApisNameAndCalls
        /\ \A k \in 1..Len(metrics.topApis) :
              metrics.topApis[k].uptime = UptimeOr(RecordOf(metrics.topApis[k]), 999)

(***************************************************************************)
(* Determinism of the summary                                              *)
(***************************************************************************)

\* The fields of a summary that are computed from the fetched records.
DerivedFields(m) ==
    [ totalApis         |-> m.totalApis,
      totalApiCalls     |-> m.totalApiCalls,
      newApisLastMonth  |-> m.newApisLastMonth,
      popularCategories |-> m.popularCategories,
      topApis           |-> m.topApis ]

\* C15 as stated: another invocation of getDashboardMetrics on the same
\* store at the same instant returns the summary the first one returned.
C15_SameSummary ==
    dLoading = FALSE =>
        \A rnd \in RandomDraws :
            GetDashboardMetrics(store, now, rnd).data = metrics

\* C15 amended: another invocation of getDashboardMetrics on the same store
\* at the same instant returns the same totalApis, totalApiCalls,
\* newApisLastMonth, popularCategories and topApis; activeUsers and
\* apiCallsOverTime are drawn at random by every invocation.
C15_SameDerivedFields ==
    dLoading = FALSE =>
        \A rnd \in RandomDraws :
            DerivedFields(GetDashboardMetrics(store, now, rnd).data)
            = DerivedFields(metrics)

\* C15 witness: a summary of three records, and an invocation on the same
\* store at the same instant that returns another activeUsers.
C15_Witness ==
    /\ dLoading = FALSE
    /\ metrics.totalApis = 3
    /\ Len(metrics.topApis) = 3
    /\ \E rnd \in RandomDraws :
          GetDashboardMetrics(store, now, rnd).data.activeUsers # metrics.activeUsers

(***************************************************************************)
(* Properties of the reads                                                 *)
(***************************************************************************)

\* A notification with the title t has been shown.
Notified(t) == \E k \in 1..Len(toasts) : toasts[k] = t

\* C16: when the apis collection cannot be read, getDashboardMetrics still
\* returns a summary, with totalApis 0, totalApiCalls 0, newApisLastMonth 0,
\* no popularCategories and no topApis, and the failure is signalled by an
\* error notification.
C16_NeutralSummaryOnFailure ==
    (dLoading = FALSE /\ "apis" \in store.down) =>
        /\ metrics # Undefined
        /\ metrics.totalApis = 0
        /\ metrics.totalApiCalls = 0
        /\ metrics.newApisLastMonth = 0
        /\ metrics.popularCategories = << >>
        /\ metrics.topApis = << >>
        /\ Notified("Error")

\* C16 witness: the dashboard has loaded from a store that holds a listing
\* but whose apis collection cannot be read.
C16_Witness ==
    /\ dLoading = FALSE
    /\ "apis" \in store.down
    /\ Len(store.apis) = 1

\* The auth_type column of the apis row with the identifier id.
StoredAuthType(id) ==
    LET k == CHOOSE k \in 1..Len(store.apis) : store.apis[k].id = id
    IN  store.apis[k].auth_type

\* The auth_type of the enriched record api is one of the three auth
\* types: the stored one if that is one of them, none otherwise.
AuthTypeCoerced(api) ==
    /\ api.auth_type \in AuthTypes
    /\ api.auth_type = IF StoredAuthType(api.id) \in AuthTypes
                       THEN StoredAuthType(api.id) ELSE "none"

\* C17 as stated: every record returned by fetchApis and by fetchApiById
\* has an auth_type among apiKey, oauth2, none: a stored value among them is
\* kept, any other stored value is replaced by none.
C17_AuthTypeCoerced ==
    /\ loading = FALSE => \A i \in 1..Len(apis) : AuthTypeCoerced(apis[i])
    /\ (vLoading = FALSE /\ vApi # Undefined) => AuthTypeCoerced(vApi)

\* The rows of a collection that fetchApis gets to see.
FetchedRows(table) == IF table \in store.down THEN << >> ELSE store[table]

\* The positions of the rows whose column key holds k.
RowsWith(rows, key, k) == { j \in 1..Len(rows) : rows[j][key] = k }

\* attached is the one row of rows whose column key holds k, undefined
\* when there is none.
IsRowOrUndefined(attached, rows, key, k) ==
    IF RowsWith(rows, key, k) = {} THEN attached = Undefined
    ELSE \E j \in RowsWith(rows, key, k) : attached = rows[j]

\* C18: fetchApis returns one enriched record per fetched apis row, in
\* fetched order, with the columns of its row; category is the fetched
\* category row with the id category_id, stats the fetched stats row with
\* the api_id of the record, each undefined when there is none; endpoints
\* holds exactly the fetched endpoint rows with the api_id of the record.
C18_OneEnrichedRecordPerRow ==
    (loading = FALSE /\ "apis" \notin store.down) =>
        /\ Len(apis) = Len(store.apis)
        /\ \A i \in 1..Len(apis) :
              LET r   == apis[i]
                  row == store.apis[i]
                  eps == FetchedRows("api_endpoints")
              IN  /\ r.id = row.id /\ r.name = row.name
                  /\ r.description = row.description /\ r.tags = row.tags
                  /\ r.category_id = row.category_id
                  /\ r.created_at = row.created_at
                  /\ IsRowOrUndefined(r.category, FetchedRows("api_categories"),
                                      "id", row.category_id)
                  /\ IsRowOrUndefined(r.stats, FetchedRows("api_stats"),
                                      "api_id", row.id)
                  /\ Len(r.endpoints) = Cardinality(RowsWith(eps, "api_id", row.id))
                  /\ Range(r.endpoints)
                       = { eps[j] : j \in RowsWith(eps, "api_id", row.id) }

\* C18 witness: two records fetched; the first has a category, no stats
\* row and no endpoints, the second has a stats row and two endpoints.
C18_Witness ==
    /\ loading = FALSE
    /\ store.down = {}
    /\ Len(apis) = 2
    /\ HasCategory(apis[1])
    /\ ~HasStats(apis[1]) /\ Len(apis[1].endpoints) = 0
    /\ HasStats(apis[2]) /\ Len(apis[2].endpoints) = 2

\* C19: when the apis fetch fails fetchApis returns an empty list and an
\* error notification is shown; otherwise every fetched apis row is
\* returned, and a categories, stats or endpoints fetch that fails leaves
\* every record without category, without stats or with no endpoints.
C19_SecondaryFailuresTolerated ==
    loading = FALSE =>
        IF "apis" \in store.down
        THEN /\ apis = << >>
             /\ vLoading = TRUE => Notified("Error")
        ELSE /\ Len(apis) = Len(store.apis)
             /\ \A i \in 1..Len(apis) :
                   /\ apis[i].id = store.apis[i].id
                   /\ "api_categories" \in store.down => apis[i].category = Undefined
                   /\ "api_stats" \in store.down => apis[i].stats = Undefined
                   /\ "api_endpoints" \in store.down => apis[i].endpoints = << >>

\* C19 witness: two listings with stats rows and endpoints were fetched
\* while the categories, stats and endpoints collections could not be read.
C19_Witness ==
    /\ loading = FALSE
    /\ store.down = {"api_categories", "api_stats", "api_endpoints"}
    /\ Len(apis) = 2
    /\ Len(store.api_stats) = 2
    /\ Len(store.api_endpoints) > 0

\* The collections whose fetch failed during loadData of the search page:
\* fetchApiCategories reads the categories, fetchApis the apis and, when it
\* got rows, the categories, stats and endpoints.
SearchReadFailures ==
    store.down \cap
        ( {"apis", "api_categories"}
          \cup (IF Len(apis) > 0 THEN {"api_stats", "api_endpoints"} ELSE {}) )

\* The collections whose fetch failed during loadApi of the detail page:
\* fetchApiById reads the apis row and, when it got it, its category, stats
\* and endpoints.
ViewReadFailures ==
    store.down \cap
        ( {"apis"}
          \cup (IF vApi # Undefined
                THEN {"api_categories", "api_stats", "api_endpoints"} ELSE {}) )

\* C20 as stated: whenever a collection fetch issued by fetchApiCategories,
\* fetchApis or fetchApiById has failed, a notification has been shown.
C20_EveryReadErrorNotified ==
    /\ (loading = FALSE /\ vLoading = TRUE /\ SearchReadFailures # {})
       => Len(toasts) > 0
    /\ (vLoading = FALSE /\ loading = TRUE /\ ViewReadFailures # {})
       => Len(toasts) > 0


(***************************************************************************)
(* C29: the chips and the filters                                          *)
(***************************************************************************)

\* A chip of the given kind is displayed.
HasChip(kind) == \E i \in 1..Len(activeFilters) : activeFilters[i].kind = kind

\* The category filter names one of the fetched categories.
NamesKnownCategory ==
    \E i \in 1..Len(categories) : categories[i].id = filters.category

\* C29: on the rendered search page the chip list matches the filters: there
\* is an "Auth:" chip exactly when the auth type filter is not "all", and a
\* "Categoria:" chip exactly when the category filter is not "all" and names
\* a known category; this also with an empty fetched API list.
C29_ChipsMatchFilters ==
    loading = FALSE =>
        /\ HasChip("Auth") <=> filters.authType # "all"
        /\ HasChip("Categoria") <=>
               (filters.category # "all" /\ NamesKnownCategory)

(***************************************************************************)
(* C25: repeated keys in the stats and the categories                      *)
(***************************************************************************)

\* row is the last row of rows whose field key is k.
IsLastWith(row, rows, key, k) ==
    \E i \in 1..Len(rows) :
        /\ rows[i] = row
        /\ rows[i][key] = k
        /\ \A j \in (i + 1)..Len(rows) : rows[j][key] # k

\* C25: a record returned by fetchApis whose API has stats rows carries the
\* last of them in fetched order, and a record whose category identifier has
\* category rows carries the last of them in fetched order.
C25_LastRowWins ==
    loading = FALSE =>
        \A i \in 1..Len(apis) :
            /\ ( "api_stats" \notin store.down
                 /\ \E k \in 1..Len(store.api_stats) :
                       store.api_stats[k].api_id = apis[i].id )
               => IsLastWith(apis[i].stats, store.api_stats, "api_id", apis[i].id)
            /\ ( "api_categories" \notin store.down
                 /\ \E k \in 1..Len(store.api_categories) :
                       store.api_categories[k].id = apis[i].category_id )
               => IsLastWith(apis[i].category, store.api_categories, "id",
                             apis[i].category_id)

\* fetchApis returned a record that has two different stats rows and two
\* different category rows in the store.
C25_Witness ==
    /\ loading = FALSE
    /\ store.down = {}
    /\ \E i \in 1..Len(apis) :
          /\ \E k, l \in 1..Len(store.api_stats) :
                /\ k < l
                /\ store.api_stats[k].api_id = apis[i].id
                /\ store.api_stats[l].api_id = apis[i].id
                /\ store.api_stats[k] # store.api_stats[l]
                /\ apis[i].stats = store.api_stats[l]
          /\ \E k, l \in 1..Len(store.api_categories) :
                /\ k < l
                /\ store.api_categories[k].id = apis[i].category_id
                /\ store.api_categories[l].id = apis[i].category_id
                /\ store.api_categories[k] # store.api_categories[l]
                /\ apis[i].category = store.api_categories[l]

(***************************************************************************)
(* C24: a by-id read whose apis fetch fails or finds nothing               *)
(***************************************************************************)

\* The store has an apis row with identifier id that can be read.
PrimaryFound(id) ==
    /\ "apis" \notin store.down
    /\ \E k \in 1..Len(store.apis) : store.apis[k].id = id

\* The detail page shows "API no encontrada".
NotFoundShown == vLoading = FALSE /\ vApi = Undefined

\* C24: when the apis fetch of a by-id read fails or finds no row,
\* fetchApiById returns null to the page (nothing is thrown past it), the
\* only request issued is the apis fetch, and the page shows the not-found
\* state.
C24_PrimaryFailureIsNotFound ==
    (vRoute # Undefined /\ ~PrimaryFound(vRoute.id)) =>
        /\ NotFoundShown
        /\ issued = << Request("select", "apis", vRoute.id, FALSE) >>
        /\ \A k \in 1..Len(issued) :
              issued[k].table \notin {"api_categories", "api_stats", "api_endpoints"}

\* The page was opened with an identifier that no row of a readable,
\* non-empty apis collection has, and the read has settled.
C24_Witness ==
    /\ vRoute # Undefined
    /\ store.down = {}
    /\ Len(store.apis) > 0
    /\ ~PrimaryFound(vRoute.id)
    /\ NotFoundShown
    /\ Len(issued) = 1

(***************************************************************************)
(* C28, C30: the detail page and its calls in flight                       *)
(***************************************************************************)

\* C28: once every fetchApiById call of the detail page has settled, the
\* displayed API is the result of the read for the current route id; the
\* answer to the call of an earlier id never replaces it.
C28_DisplaysCurrentRoute ==
    (vRoute # Undefined /\ vInFlight = {}) =>
        vApi = FetchApiById(store, vRoute.id).data

\* C30: every mounted detail page eventually leaves the loading state, also
\* when the route provides no id.
C30_LeavesLoading == <>(vLoading = FALSE)

(***************************************************************************)
(* C21, C22, C23, C26, C27: the create flow                                *)
(***************************************************************************)

\* The k-th issued request is an insert into table for the API a, and it
\* succeeded.
Inserted(k, table, a) == issued[k] = Request("insert", table, a, TRUE)

\* The tables of the successful inserts for the API a, in issue order.
InsertedTablesOf(a) ==
    LET done == SelectSeq(issued,
                          LAMBDA r : r.op = "insert" /\ r.ok /\ r.api_id = a)
    IN  [k \in 1..Len(done) |-> done[k].table]

\* The inserts of a complete createApi call with the argument apiData.
ExpectedInserts(apiData) ==
    << "apis", "api_stats" >>
    \o (IF Len(apiData.endpoints) > 0 THEN << "api_endpoints" >> ELSE << >>)

\* s is an initial part of t.
IsPrefix(s, t) == Len(s) <= Len(t) /\ \A k \in 1..Len(s) : s[k] = t[k]

\* Every insert of the createApi call in progress succeeded.
AllInserted ==
    /\ create.api # Undefined
    /\ InsertedTablesOf(create.api.id) = ExpectedInserts(create.apiData)

\* C21: createApi inserts the apis row, then the stats row (the supplied
\* statistics or a default row), then the endpoint rows and these only for
\* at least one supplied endpoint; a stats or endpoints insert is issued only
\* with the identifier of an apis row whose insert succeeded before.
C21_InsertOrder ==
    /\ \A k \in 1..Len(issued) :
          (issued[k].op = "insert" /\ issued[k].table = "api_stats")
          => \E j \in 1..(k - 1) : Inserted(j, "apis", issued[k].api_id)
    /\ \A k \in 1..Len(issued) :
          (issued[k].op = "insert" /\ issued[k].table = "api_endpoints")
          => \E j \in 1..(k - 1) :
                /\ Inserted(j, "api_stats", issued[k].api_id)
                /\ \E i \in 1..(j - 1) : Inserted(i, "apis", issued[k].api_id)
    /\ create.api # Undefined =>
          /\ IsPrefix(InsertedTablesOf(create.api.id),
                      ExpectedInserts(create.apiData))
          /\ create.pc = "read" => AllInserted
          /\ Len(InsertedTablesOf(create.api.id)) >= 2 =>
                \E k \in 1..Len(store.api_stats) :
                    /\ store.api_stats[k].api_id = create.api.id
                    /\ create.apiData.stats # Undefined =>
                          /\ store.api_stats[k].total_calls =
                                 create.apiData.stats.total_calls
                          /\ store.api_stats[k].uptime = create.apiData.stats.uptime

\* A createApi call with statistics and endpoints made its three inserts.
C21_Witness ==
    /\ create.pc = "done"
    /\ create.apiData.stats # Undefined
    /\ Len(create.apiData.endpoints) > 0
    /\ AllInserted
    /\ Len(InsertedTablesOf(create.api.id)) = 3

\* Number of notifications titled title.
CountToasts(title) == Cardinality({ k \in 1..Len(toasts) : toasts[k] = title })

\* Some insert failed.
SomeInsertFailed ==
    \E k \in 1..Len(issued) : issued[k].op = "insert" /\ ~issued[k].ok

\* C22: after a failed insert no further insert of the submission is
\* issued, and the failed submission shows exactly one failure notification.
C22_OneFailureNotification ==
    /\ \A k \in 1..Len(issued) :
          (issued[k].op = "insert" /\ ~issued[k].ok)
          => \A j \in (k + 1)..Len(issued) : issued[j].op # "insert"
    /\ (create.pc = "done" /\ create.page /\ SomeInsertFailed)
          => CountToasts("Error") = 1

C26_SuccessAfterInserts ==
    (create.pc = "done" /\ create.page /\ AllInserted) =>
        /\ create.result # Undefined
        /\ CountToasts("API creada") = 1
        /\ CountToasts("Error") = 0
        /\ addApi.navigatedTo = [id |-> create.api.id]

\* C27: whatever the interleaving of a fetchApis call with a createApi call,
\* every returned record of a row inserted by that createApi call has its
\* stats attached and carries all the supplied endpoints.
C27_FetchSeesWholeListing ==
    (fetch.pc = "done" /\ create.api # Undefined) =>
        \A i \in 1..Len(fetch.result) :
            fetch.result[i].id = create.api.id =>
                /\ fetch.result[i].stats # Undefined
                /\ Len(fetch.result[i].endpoints) = Len(create.apiData.endpoints)

====
